---- MODULE Spec2Model ----
(***************************************************************************)
(* State-machine model of the GraphQL-to-MCP adapter                       *)
(* (src/src/graphql-mcp-server.ts).                                        *)
(*                                                                         *)
(* One action is one macrotask of the Node.js event loop: a handler runs   *)
(* from the event that wakes it (a line on stdin, the 50 ms poll timer, a  *)
(* network completion) up to its next await on a timer or on the network,  *)
(* or to its end.  Names are sequences of one-character strings so that    *)
(* length, prefix and substring are computed as the code computes them.    *)
(***************************************************************************)
EXTENDS Integers, Sequences, FiniteSets, Bags, TLC

\* ------------------------------------------------------------------ bounds
MaxInFlight == 2    \* request handlers that may be in flight together
MaxTime     == 2    \* last value of the clock
CountCap    == 2    \* the per-epoch counters saturate here

\* ------------------------------------------------------- program constants
CACHE_TTL      == 2     \* ticks of the model clock (one tick = half an hour)
MaxToolNameLen == 64
NoExpiry       == 0     \* schemaCacheExpiry = null (0 and null are both falsy)

\* ------------------------------------------------------------ name helpers
Rep(c, n) == [i \in 1..n |-> c]

Min(a, b) == IF a < b THEN a ELSE b

\* String.prototype.substring(0, n)
substring(s, n) == SubSeq(s, 1, Min(n, Len(s)))

\* String.prototype.startsWith
startsWith(s, p) == Len(s) >= Len(p) /\ SubSeq(s, 1, Len(p)) = p

MutationPrefix == <<"m", "u", "t", "a", "t", "i", "o", "n", "_">>

\* fullName.replace(/^mutation_/, "")
stripPrefix(s) ==
    IF startsWith(s, MutationPrefix)
    THEN SubSeq(s, Len(MutationPrefix) + 1, Len(s))
    ELSE s

\* ----------------------------------------------- the upstream type systems
\* Field names of the schemas the upstream endpoint may serve.
fA     == <<"a">>
fB     == <<"b">>
fX64   == Rep("x", 64)                                  \* exactly 64 chars
fLong1 == Rep("x", 64) \o <<"1", "2", "3", "4", "5", "6">>   \* 70 chars
fPfx   == MutationPrefix \o <<"m">>           \* a query field "mutation_m"
fM     == <<"m">>
fM60   == Rep("y", 60)                                  \* 60 chars
fNone  == <<"n", "o">>                        \* declared by no schema

\* A type reference: the named (base) type under its List/NonNull wrappers.
TypeRef(base, nonNull, list) == [base |-> base, nonNull |-> nonNull, list |-> list]

Arg(name, type) == [name |-> name, type |-> type]

Field(name, args, type) == [name |-> name, args |-> args, type |-> type]

ArgId  == Arg("id", TypeRef("ID", TRUE, FALSE))        \* id: ID!
ArgN   == Arg("n", TypeRef("Int", FALSE, FALSE))       \* n: Int
ArgIn  == Arg("in", TypeRef("In", FALSE, FALSE))       \* in: In (input object)

\* Named types shared by the schemas: kind and, for objects, the fields.
TypeDefs ==
    [ ID      |-> [kind |-> "SCALAR", fields |-> <<>>],
      Int     |-> [kind |-> "SCALAR", fields |-> <<>>],
      String  |-> [kind |-> "SCALAR", fields |-> <<>>],
      Float   |-> [kind |-> "SCALAR", fields |-> <<>>],
      Boolean |-> [kind |-> "SCALAR", fields |-> <<>>],
      Color   |-> [kind |-> "ENUM", fields |-> <<>>],
      In      |-> [kind |-> "INPUT_OBJECT", fields |-> <<>>],
      T1      |-> [kind |-> "OBJECT", fields |->
                    << Field(<<"i", "d">>, <<>>, TypeRef("ID", TRUE, FALSE)),
                       Field(<<"k", "i", "d">>, <<>>, TypeRef("T2", FALSE, FALSE)),
                       Field(<<"q">>, <<ArgN>>, TypeRef("String", FALSE, FALSE)) >>],
      T2      |-> [kind |-> "OBJECT", fields |->
                    << Field(<<"c">>, <<>>, TypeRef("Color", FALSE, FALSE)),
                       Field(<<"u", "p">>, <<>>, TypeRef("T1", FALSE, FALSE)),
                       Field(<<"d">>, <<>>, TypeRef("T3", FALSE, FALSE)) >>],
      T3      |-> [kind |-> "OBJECT", fields |->
                    << Field(<<"v">>, <<>>, TypeRef("Float", FALSE, FALSE)),
                       Field(<<"e">>, <<>>, TypeRef("T4", FALSE, FALSE)) >>],
      T4      |-> [kind |-> "OBJECT", fields |->
                    << Field(<<"w">>, <<>>, TypeRef("Int", FALSE, FALSE)) >>],
      T5      |-> [kind |-> "OBJECT", fields |->
                    << Field(<<"s", "1">>, <<>>, TypeRef("T7", FALSE, FALSE)),
                       Field(<<"s", "2">>, <<>>, TypeRef("T7", FALSE, FALSE)),
                       Field(<<"m", "e">>, <<>>, TypeRef("T5", FALSE, FALSE)),
                       Field(<<"x">>, <<>>, TypeRef("Int", FALSE, FALSE)),
                       Field(<<"f", "a", "r">>, <<ArgN>>, TypeRef("T6", FALSE, FALSE)),
                       Field(<<"t">>, <<>>, TypeRef("T6", TRUE, TRUE)) >>],
      T6      |-> [kind |-> "OBJECT", fields |->
                    << Field(<<"g">>, <<ArgId>>, TypeRef("String", FALSE, FALSE)),
                       Field(<<"h">>, <<>>, TypeRef("T8", FALSE, FALSE)) >>],
      T7      |-> [kind |-> "OBJECT", fields |->
                    << Field(<<"a">>, <<>>, TypeRef("Int", FALSE, FALSE)),
                       Field(<<"b">>, <<>>, TypeRef("String", FALSE, FALSE)),
                       Field(<<"c">>, <<>>, TypeRef("Color", FALSE, FALSE)),
                       Field(<<"d">>, <<>>, TypeRef("Float", FALSE, FALSE)),
                       Field(<<"b", "a", "c", "k">>, <<>>, TypeRef("T5", FALSE, FALSE)),
                       Field(<<"e">>, <<>>, TypeRef("ID", TRUE, FALSE)) >>],
      T8      |-> [kind |-> "OBJECT", fields |->
                    << Field(<<"z">>, <<ArgN>>, TypeRef("Int", FALSE, FALSE)) >>] ]

\* Schema 1: query and mutation root types.
Schema1 ==
    [ query |->
        << Field(fA, <<ArgId, ArgN>>, TypeRef("T1", FALSE, FALSE)),
           Field(fB, <<>>, TypeRef("String", FALSE, FALSE)),
           Field(fX64, <<>>, TypeRef("Int", FALSE, FALSE)),
           Field(fLong1, <<>>, TypeRef("T2", TRUE, TRUE)),
           Field(fPfx, <<>>, TypeRef("String", FALSE, FALSE)) >>,
      mutation |->
        << Field(fM, <<ArgIn>>, TypeRef("T1", FALSE, FALSE)),
           Field(fM60, <<>>, TypeRef("Boolean", FALSE, FALSE)) >>,
      hasMutation |-> TRUE ]

\* Schema 2: what the endpoint serves after a redeploy; no mutation type.
Schema2 ==
    [ query |->
        << Field(fA, <<ArgId, ArgN>>, TypeRef("T1", FALSE, FALSE)),
           Field(fLong1, <<>>, TypeRef("T2", TRUE, TRUE)) >>,
      mutation |-> <<>>,
      hasMutation |-> FALSE ]

SchemaIds == {1, 2}

SchemaOf(sid) == IF sid = 1 THEN Schema1 ELSE Schema2

\* The value of schemaCache before the first successful fetch (null).
NoSchema == [sid |-> 0, at |-> 0]

\* A lookup that found nothing (undefined).
NoField == Field(<<>>, <<>>, TypeRef("", FALSE, FALSE))

\* fields[name] on a root type: the field of that name, or NoField.
FieldNamed(fields, name) ==
    IF \E i \in 1..Len(fields) : fields[i].name = name
    THEN fields[CHOOSE i \in 1..Len(fields) : fields[i].name = name]
    ELSE NoField

\* A whitelist as parsed at startup: on = FALSE is the null whitelist.
Whitelist(on, names) == [on |-> on, names |-> names]

\* --------------------------------------------------------- type classifier
\* getNamedType: strip the List/NonNull wrappers.
getNamedType(type) == type.base

isScalarType(base)      == TypeDefs[base].kind = "SCALAR"
isEnumType(base)        == TypeDefs[base].kind = "ENUM"
isInputObjectType(base) == TypeDefs[base].kind = "INPUT_OBJECT"
isObjectType(base)      == TypeDefs[base].kind = "OBJECT"
isNonNullType(type)     == type.nonNull

getJsonSchemaType(graphqlType) ==
    CASE graphqlType = "Int"     -> "integer"
      [] graphqlType = "Float"   -> "number"
      [] graphqlType = "String"  -> "string"
      [] graphqlType = "Boolean" -> "boolean"
      [] graphqlType = "ID"      -> "string"
      [] OTHER                   -> "string"

\* ------------------------------------------------------------ name registry
EmptyMap == [x \in {} |-> x]

MapPut(m, k, v) == [x \in (DOMAIN m) \cup {k} |-> IF x = k THEN v ELSE m[x]]

\* toolNameMappings[name] || name
Resolve(m, name) == IF name \in DOMAIN m THEN m[name] ELSE name

\* ----------------------------------------------------- tool catalog builder
\* The JSON type of one argument's input-shape entry.
PropertyType(arg) ==
    LET baseType == getNamedType(arg.type)
    IN  IF isScalarType(baseType) THEN getJsonSchemaType(baseType)
        ELSE IF isEnumType(baseType) THEN "string"
        ELSE IF isInputObjectType(baseType) THEN "object"
        ELSE "string"

\* The argument names pushed to `required`, in declaration order.
RequiredOf(args) ==
    SelectSeq([i \in 1..Len(args) |-> IF isNonNullType(args[i].type) THEN args[i].name ELSE ""],
              LAMBDA n : n # "")

PropertiesOf(args) == [i \in 1..Len(args) |-> [name |-> args[i].name, type |-> PropertyType(args[i])]]

\* An MCPTool.  The description is the generated default, which names the
\* schema field and the operation kind the tool was generated from.
Tool(name, fieldName, kind, args) ==
    [ name        |-> name,
      description |-> [field |-> fieldName, kind |-> kind],
      properties  |-> PropertiesOf(args),
      required    |-> RequiredOf(args) ]

\* The external name of a query field.
QueryToolName(fieldName) ==
    IF Len(fieldName) > MaxToolNameLen THEN substring(fieldName, MaxToolNameLen) ELSE fieldName

MutationToolName_NoPrefixRoom(fieldName) ==
    LET fullName == MutationPrefix \o fieldName
    IN  IF Len(fullName) > MaxToolNameLen
        THEN MutationPrefix \o substring(fieldName, MaxToolNameLen)
        ELSE fullName

\* The external name of a mutation field.
MutationToolName(fieldName) ==
    LET fullName == MutationPrefix \o fieldName
        maxFieldNameLength == MaxToolNameLen - Len(MutationPrefix)
    IN  IF Len(fullName) > MaxToolNameLen
        THEN MutationPrefix \o substring(fieldName, maxFieldNameLength)
        ELSE fullName

\* The loop of getToolsFromSchema over Object.entries(fields): acc carries the
\* tools pushed so far and the registry as written so far.
RECURSIVE QueryToolsLoop(_, _, _, _)
QueryToolsLoop(fields, i, wq, acc) ==
    IF i > Len(fields) THEN acc
    ELSE LET fieldName == fields[i].name
             truncatedName == QueryToolName(fieldName)
         IN  IF wq.on /\ fieldName \notin wq.names
             THEN QueryToolsLoop(fields, i + 1, wq, acc)
             ELSE QueryToolsLoop(fields, i + 1, wq,
                    [ tools |-> Append(acc.tools,
                                       Tool(truncatedName, fieldName, "query", fields[i].args)),
                      map   |-> IF truncatedName # fieldName
                                THEN MapPut(acc.map, truncatedName, fieldName)
                                ELSE acc.map ])

\* getToolsFromSchema(schema): the tools, and toolNameMappings afterwards.
\* snap is NoSchema or a snapshot; wq is WHITELISTED_QUERIES.
getToolsFromSchema(snap, wq, map) ==
    IF snap = NoSchema THEN [tools |-> <<>>, map |-> map]
    ELSE QueryToolsLoop(SchemaOf(snap.sid).query, 1, wq, [tools |-> <<>>, map |-> map])

RECURSIVE MutationToolsLoop(_, _, _, _)
MutationToolsLoop(fields, i, wm, acc) ==
    IF i > Len(fields) THEN acc
    ELSE LET fieldName == fields[i].name
             fullName == MutationPrefix \o fieldName
             truncatedName == MutationToolName(fieldName)
         IN  IF wm.on /\ fieldName \notin wm.names
             THEN MutationToolsLoop(fields, i + 1, wm, acc)
             ELSE MutationToolsLoop(fields, i + 1, wm,
                    [ tools |-> Append(acc.tools,
                                       Tool(truncatedName, fieldName, "mutation", fields[i].args)),
                      map   |-> IF Len(fullName) > MaxToolNameLen
                                THEN MapPut(acc.map, truncatedName, fullName)
                                ELSE acc.map ])

\* getToolsFromMutationType(schema); wm is WHITELISTED_MUTATIONS.
getToolsFromMutationType(snap, wm, map) ==
    IF snap = NoSchema THEN [tools |-> <<>>, map |-> map]
    ELSE IF ~SchemaOf(snap.sid).hasMutation THEN [tools |-> <<>>, map |-> map]
    ELSE MutationToolsLoop(SchemaOf(snap.sid).mutation, 1, wm, [tools |-> <<>>, map |-> map])

\* The tools/list handler after fetchSchema: allTools and the registry.
ListTools(snap, env, map) ==
    LET AllTools(q, m) == [tools |-> q.tools \o m.tools, map |-> m.map]
        WithQueries(q) == AllTools(q, getToolsFromMutationType(snap, env.wm, q.map))
    IN  WithQueries(getToolsFromSchema(snap, env.wq, map))

ToolNames(tools) == {tools[i].name : i \in 1..Len(tools)}

\* ------------------------------------------------------ selection planner
\* A FieldSelection: a field name (obj = FALSE) or {name, fields} (obj = TRUE).
Leaf(name)         == [name |-> name, obj |-> FALSE, fields |-> <<>>]
Nested(name, flds) == [name |-> name, obj |-> TRUE, fields |-> flds]

\* analyzeFields(type, schema, visitedTypes, depth).  visitedTypes is one
\* mutable Set shared by the whole traversal, so it is threaded through and
\* returned with the result.  expanded is history: the type names in the
\* order the call and the calls it made got past the two guards.
RECURSIVE analyzeFields(_, _, _)
RECURSIVE AnalyzeLoop(_, _, _, _)
analyzeFields_NoVisited(typeName, visitedTypes, depth) ==
    IF depth > 2
    THEN [result |-> <<>>, visited |-> visitedTypes, expanded |-> <<>>]
    ELSE IF ~isObjectType(typeName)
    THEN [result |-> <<>>, visited |-> visitedTypes, expanded |-> <<>>]
    ELSE AnalyzeLoop(TypeDefs[typeName].fields, 1, depth,
                     [result |-> <<>>, visited |-> visitedTypes \cup {typeName},
                      expanded |-> <<typeName>>])

analyzeFields(typeName, visitedTypes, depth) ==
    IF typeName \in visitedTypes \/ depth > 2
    THEN [result |-> <<>>, visited |-> visitedTypes, expanded |-> <<>>]
    ELSE IF ~isObjectType(typeName)
    THEN [result |-> <<>>, visited |-> visitedTypes, expanded |-> <<>>]
    ELSE AnalyzeLoop(TypeDefs[typeName].fields, 1, depth,
                     [result |-> <<>>, visited |-> visitedTypes \cup {typeName},
                      expanded |-> <<typeName>>])

AnalyzeLoop_NoSlice(fields, i, depth, acc) ==
    IF i > Len(fields) THEN acc
    ELSE LET field == fields[i]
             fieldType == getNamedType(field.type)
         IN  IF Len(field.args) > 0
             THEN AnalyzeLoop(fields, i + 1, depth, acc)
             ELSE IF isScalarType(fieldType) \/ isEnumType(fieldType)
             THEN AnalyzeLoop(fields, i + 1, depth,
                              [acc EXCEPT !.result = Append(@, Leaf(field.name))])
             ELSE IF isObjectType(fieldType) /\ depth < 2
             THEN LET nested == analyzeFields(fieldType, acc.visited, depth + 1)
                      nestedFields == nested.result
                  IN  AnalyzeLoop(fields, i + 1, depth,
                        [ result   |-> IF Len(nestedFields) > 0
                                       THEN Append(acc.result, Nested(field.name, nestedFields))
                                       ELSE acc.result,
                          visited  |-> nested.visited,
                          expanded |-> acc.expanded \o nested.expanded ])
             ELSE AnalyzeLoop(fields, i + 1, depth, acc)

AnalyzeLoop(fields, i, depth, acc) ==
    IF i > Len(fields) THEN acc
    ELSE LET field == fields[i]
             fieldType == getNamedType(field.type)
         IN  IF Len(field.args) > 0
             THEN AnalyzeLoop(fields, i + 1, depth, acc)
             ELSE IF isScalarType(fieldType) \/ isEnumType(fieldType)
             THEN AnalyzeLoop(fields, i + 1, depth,
                              [acc EXCEPT !.result = Append(@, Leaf(field.name))])
             ELSE IF isObjectType(fieldType) /\ depth < 2
             THEN LET nested == analyzeFields(fieldType, acc.visited, depth + 1)
                      nestedFields == nested.result
                  IN  AnalyzeLoop(fields, i + 1, depth,
                        [ result   |-> IF Len(nestedFields) > 0
                                       THEN Append(acc.result,
                                              Nested(field.name,
                                                     SubSeq(nestedFields, 1, Min(3, Len(nestedFields)))))
                                       ELSE acc.result,
                          visited  |-> nested.visited,
                          expanded |-> acc.expanded \o nested.expanded ])
             ELSE AnalyzeLoop(fields, i + 1, depth, acc)

\* The selection planned for a root field's return type (a fresh visited set).
PlanSelection(field) ==
    LET returnType == getNamedType(field.type)
    IN  IF isObjectType(returnType) THEN analyzeFields(returnType, {}, 0).result ELSE <<>>

\* buildSelectionSet renders "" exactly for an empty field list.
RECURSIVE SelectionRendersOK(_)
SelectionRendersOK(fields) ==
    \A i \in 1..Len(fields) :
        fields[i].obj => (Len(fields[i].fields) > 0 /\ SelectionRendersOK(fields[i].fields))

\* -------------------------------------------------------- argument coercer
\* JSON values a caller can supply, and what coercion can produce.
Val(k, s, n) == [k |-> k, s |-> s, n |-> n]
VNull     == Val("null", "", 0)
VNaN      == Val("nan", "", 0)
VObj      == Val("obj", "", 0)
VStr(s)   == Val("str", s, 0)
VNum(n)   == Val("num", "", n)
VBool(b)  == Val("bool", "", IF b THEN 1 ELSE 0)

\* parseInt(v, 10) and parseFloat(v) on the values of the model.
parseInt(v) ==
    CASE v.k = "num" -> v
      [] v.k = "str" /\ v.s = "12" -> VNum(12)
      [] OTHER -> VNaN

\* Boolean(v)
ToBoolean(v) ==
    VBool(~(v.k \in {"null", "nan"} \/ v = VStr("") \/ v = VNum(0) \/ v = VBool(FALSE)))

\* String(v)
StringOf(v) ==
    CASE v.k = "str"  -> v
      [] v.k = "null" -> VStr("null")
      [] v.k = "nan"  -> VStr("NaN")
      [] v.k = "num"  -> IF v.n = 12 THEN VStr("12") ELSE VStr("0")
      [] v.k = "bool" -> IF v.n = 1 THEN VStr("true") ELSE VStr("false")
      [] OTHER        -> VStr("[object Object]")

\* Whether JSON.parse(s) succeeds, for the strings of the model.
JsonParses(str) == str = "{}"

\* The value processArguments stores for one declared argument.
CoerceArg(argDef, argValue) ==
    LET baseType == getNamedType(argDef.type)
        fallback == IF isNonNullType(argDef.type) THEN VObj ELSE VNull
    IN  IF isInputObjectType(baseType)
        THEN IF argValue = VStr("") THEN fallback
             ELSE IF argValue.k = "str" /\ argValue.s \in {"{}", "{x"}
             THEN IF JsonParses(argValue.s) THEN VObj ELSE fallback
             ELSE argValue
        ELSE IF isEnumType(baseType) THEN StringOf(argValue)
        ELSE IF isScalarType(baseType)
        THEN CASE baseType = "Int"     -> parseInt(argValue)
               [] baseType = "Float"   -> parseInt(argValue)
               [] baseType = "Boolean" -> ToBoolean(argValue)
               [] OTHER                -> argValue
        ELSE argValue

ArgNamed(fieldArgs, argName) ==
    fieldArgs[CHOOSE i \in 1..Len(fieldArgs) : fieldArgs[i].name = argName]

\* processArguments(args, fieldArgs, schema): args maps names to values.
processArguments_KeepUnknown(args, fieldArgs) ==
    LET declared == {fieldArgs[i].name : i \in 1..Len(fieldArgs)}
        kept == { a \in (DOMAIN args) \cap declared :
                    ~( CoerceArg(ArgNamed(fieldArgs, a), args[a]) = VNull
                       /\ ~isNonNullType(ArgNamed(fieldArgs, a).type) ) }
    IN  [a \in kept \cup ((DOMAIN args) \ declared) |->
            IF a \in declared THEN CoerceArg(ArgNamed(fieldArgs, a), args[a]) ELSE args[a]]

processArguments(args, fieldArgs) ==
    LET declared == {fieldArgs[i].name : i \in 1..Len(fieldArgs)}
        kept == { a \in (DOMAIN args) \cap declared :
                    ~( CoerceArg(ArgNamed(fieldArgs, a), args[a]) = VNull
                       /\ ~isNonNullType(ArgNamed(fieldArgs, a).type) ) }
    IN  [a \in kept |-> CoerceArg(ArgNamed(fieldArgs, a), args[a])]

\* ------------------------------------------------------ operation assembler
\* The property names every object literal inherits from Object.prototype
\* that are also GraphQL names.
ObjectPrototype ==
    { "constructor", "toString", "toLocaleString", "valueOf", "hasOwnProperty",
      "isPrototypeOf", "propertyIsEnumerable" }

\* processedArgs[name] !== undefined: processedArgs is an object literal, so
\* the lookup finds an own key (whose value is never undefined) or else a
\* member of Object.prototype.
Defined(processedArgs, name) ==
    name \in DOMAIN processedArgs \/ name \in ObjectPrototype

NoDoc == [kind |-> "", opName |-> <<>>, root |-> <<>>, varDefs |-> <<>>,
          fieldArgs |-> <<>>, varParens |-> FALSE, argParens |-> FALSE,
          braces |-> FALSE, selection |-> <<>>, variables |-> EmptyMap]

\* The document text of executeGraphQLTool / executeGraphQLMutation, kept as
\* its parts: opName and root are the identifiers interpolated into the
\* template, varParens/argParens/braces say which optional brackets it emits.
Assemble_AlwaysParens(kind, opName, root, field, args) ==
    LET Document(processedArgs, used, selection) ==
            [ kind      |-> kind,
              opName    |-> opName,
              root      |-> root,
              varDefs   |-> [i \in 1..Len(used) |-> [name |-> used[i].name, type |-> used[i].type]],
              fieldArgs |-> [i \in 1..Len(used) |-> used[i].name],
              varParens |-> TRUE,
              argParens |-> TRUE,
              braces    |-> Len(selection) > 0,
              selection |-> selection,
              variables |-> processedArgs ]
        WithArgs(processedArgs) ==
            Document(processedArgs,
                     SelectSeq(field.args, LAMBDA arg : Defined(processedArgs, arg.name)),
                     PlanSelection(field))
    IN  WithArgs(processArguments(args, field.args))

Assemble(kind, opName, root, field, args) ==
    LET Document(processedArgs, used, selection) ==
            [ kind      |-> kind,
              opName    |-> opName,
              root      |-> root,
              varDefs   |-> [i \in 1..Len(used) |-> [name |-> used[i].name, type |-> used[i].type]],
              fieldArgs |-> [i \in 1..Len(used) |-> used[i].name],
              varParens |-> Len(used) > 0,
              argParens |-> Len(used) > 0,
              braces    |-> Len(selection) > 0,
              selection |-> selection,
              variables |-> processedArgs ]
        WithArgs(processedArgs) ==
            Document(processedArgs,
                     SelectSeq(field.args, LAMBDA arg : Defined(processedArgs, arg.name)),
                     PlanSelection(field))
    IN  WithArgs(processArguments(args, field.args))

\* parse(args.query) in executeQuery: brackets the grammar requires to be
\* non-empty are non-empty.
ParseOK(doc) ==
    /\ doc.varParens => Len(doc.varDefs) > 0
    /\ doc.argParens => Len(doc.fieldArgs) > 0
    /\ doc.braces => Len(doc.selection) > 0
    /\ SelectionRendersOK(doc.selection)

\* ================================================================== state
VARIABLES
    env,                    \* the environment read once at startup
    schemaCache,            \* the cached snapshot, or NoSchema
    schemaFetchInProgress,  \* the single-flight flag
    schemaCacheExpiry,      \* expiry instant of the snapshot, or NoExpiry
    toolNameMappings,       \* external (truncated) name -> original name
    now,                    \* Date.now()
    handlers,               \* the bag of handlers in flight
    out,                    \* what the last step wrote to stdout, if anything
    listed,                 \* history: the tools of the last tools/list result
    epoch                   \* history: bookkeeping since the server was idle

vars == <<env, schemaCache, schemaFetchInProgress, schemaCacheExpiry,
          toolNameMappings, now, handlers, out, listed, epoch>>

Env(wq, wm, em) == [wq |-> wq, wm |-> wm, enableMutations |-> em]

NoWhitelist == Whitelist(FALSE, {})

\* The environments the server may be started in: nothing configured, or
\* both whitelists and ENABLE_MUTATIONS=true.
Envs ==
    { Env(NoWhitelist, NoWhitelist, FALSE),
      Env(Whitelist(TRUE, {fA, fLong1}), Whitelist(TRUE, {fM60}), TRUE) }

\* A handler that has just been entered: its position, the request (id, method,
\* params.name, params.arguments) and its locals (the resolved field name,
\* `now` as read by fetchSchema, the document sent); a local is kept only
\* while the handler can still read it.  The startup call of fetchSchema in
\* main() is the handler of method "startup".  fresh is history: a fetch
\* has succeeded since the handler began to wait.  Handlers have no
\* identity of their own, so the ones in flight form a bag.
NoId == 0

\* History of a caller in the poll loop: the snapshot it is to return.  No
\* fetch has completed yet while it waits ("pending"); the first to complete
\* "failed" and no caller that waited along with it has returned yet; or
\* schemaCache is still the "same" as, or now "differs" from, what the first
\* fetch to complete stored or, if that failed, what the first caller that
\* waited along with it returned.
Pending == "pending"

NewHandler(method, name, args, actual) ==
    [pc |-> "run", id |-> NoId, method |-> method, name |-> name, args |-> args,
     actual |-> actual, t0 |-> 0, doc |-> NoDoc, fresh |-> FALSE,
     waited |-> Pending]

\* The handler entered for a request line that carries id.
NewRequest(id, method, name, args, actual) ==
    [NewHandler(method, name, args, actual) EXCEPT !.id = id]

One(s) == SetToBag({s})

\* The handlers in flight that are at pc.
At(pc) == [s \in {g \in BagToSet(handlers) : g.pc = pc} |-> handlers[s]]

\* The request handlers in flight.
Requests == [s \in {g \in BagToSet(handlers) : g.method # "startup"} |-> handlers[s]]

\* The event of a step.  kind/id/tools/error/code/subject are the JSON-RPC line
\* written (kind "none": nothing written; subject: the name quoted in the
\* error message).  line is the id of the request line read in this step
\* (NoId: no line, a notification, or a line that is not JSON).  tool, actual, args, via, snap, fresh and doc are
\* history: the tool name the handler that acted was asked for, how
\* fetchSchema returned to it in this step ("hit", "wait", "fetch", or "" if
\* it did not) with which snapshot, whether a fetch had succeeded while it
\* was in fetchSchema, and the document it sent upstream in this step (NoDoc
\* if none) with the resolved name and the arguments of its request.
NoOut == [kind |-> "none", id |-> NoId, line |-> NoId, tools |-> <<>>, error |-> "", code |-> 0,
          subject |-> <<>>, tool |-> <<>>, via |-> "", snap |-> NoSchema,
          fresh |-> FALSE, doc |-> NoDoc, actual |-> <<>>, args |-> EmptyMap]

\* A JSON-RPC result line of tools/list.
ListResult(tools, via, snap) ==
    [NoOut EXCEPT !.kind = "tools", !.tools = tools, !.via = via, !.snap = snap]

\* A JSON-RPC result line of tools/call.
CallResult_NoId(s) == [NoOut EXCEPT !.kind = "content", !.tool = s.name]

CallResult(s) == [NoOut EXCEPT !.kind = "content", !.id = s.id, !.tool = s.name]

\* A JSON-RPC error line of tools/call.
ErrorLine(name, error, subject, via, snap) ==
    [NoOut EXCEPT !.kind = "error", !.error = error, !.code = -32000,
                  !.subject = subject, !.tool = name, !.via = via, !.snap = snap]

\* No line written, but fetchSchema returned to a handler.
Returned(name, via, snap) ==
    [NoOut EXCEPT !.tool = name, !.via = via, !.snap = snap]

\* No line written: the handler s sent doc upstream.
Sent(s, via, snap, doc) ==
    [Returned(s.name, via, snap) EXCEPT !.doc = doc, !.actual = s.actual, !.args = s.args]

\* The handler s once its document is with the upstream.
AwaitingOp(s, doc) ==
    [NewRequest(s.id, s.method, s.name, s.args, s.actual) EXCEPT !.pc = "awaitOp", !.doc = doc]

\* What a caller may ask tools/call to run.
CallNames ==
    { fA, fB, fX64, fPfx, MutationToolName(fM60) }

CallArgs(name) ==
    IF name = fA
    THEN { EmptyMap, [id |-> VStr("abc")] }
    ELSE { EmptyMap }

\* schemaCache && schemaCacheExpiry && now < schemaCacheExpiry
CacheValid ==
    schemaCache # NoSchema /\ schemaCacheExpiry # NoExpiry /\ now < schemaCacheExpiry

\* The branch fetchSchema takes on entry.
FetchMode_NoWait == IF CacheValid THEN "hit" ELSE "miss"

FetchMode_NoCache == IF schemaFetchInProgress THEN "wait" ELSE "miss"

FetchMode ==
    IF schemaFetchInProgress THEN "wait"
    ELSE IF CacheValid THEN "hit"
    ELSE "miss"

\* The number of introspection requests with the upstream.
Outstanding == BagCardinality(At("awaitIntro"))

Quiescent == handlers = EmptyBag

\* An epoch runs from a request arriving at an idle server to the server
\* being idle again.  cold: no schema had ever been cached when it began;
\* calls: introspection requests sent in it; answered: tools/list results
\* written in it (both saturating); fetched: a fetch has completed in it;
\* late: a request arrived after that completion; lists: the tool lists of
\* its tools/list results.  Only epochs that are cold and not late are
\* tracked; every other epoch is NoEpoch.
NoEpoch == [cold |-> FALSE, calls |-> 0, answered |-> 0, fetched |-> FALSE,
            late |-> TRUE, lists |-> {}]

Tracked(ep) == IF ep.cold /\ ~ep.late THEN ep ELSE NoEpoch

NewEpoch == Tracked([cold |-> schemaCache = NoSchema, calls |-> 0, answered |-> 0,
                     fetched |-> FALSE, late |-> FALSE, lists |-> {}])

\* The epoch as seen by an arriving request.
EpochAtArrival ==
    IF Quiescent THEN NewEpoch ELSE Tracked([epoch EXCEPT !.late = epoch.late \/ epoch.fetched])

\* main() calls fetchSchema() before the first line is read: the startup
\* fetch is already in flight.
Init ==
    /\ env \in Envs
    /\ schemaCache = NoSchema
    /\ schemaFetchInProgress = TRUE
    /\ schemaCacheExpiry = NoExpiry
    /\ toolNameMappings = EmptyMap
    /\ now = 0
    /\ handlers = One([NewHandler("startup", <<>>, EmptyMap, <<>>) EXCEPT !.pc = "awaitIntro"])
    /\ out = NoOut
    /\ listed = <<>>
    /\ epoch = [cold |-> TRUE, calls |-> 1, answered |-> 0, fetched |-> FALSE,
                late |-> FALSE, lists |-> {}]

\* ------------------------------------------------- the handlers, continued
\* executeQuery({query: doc, ...}) called by the handler s: the document is
\* parsed first; only one that parses is sent, and the handler awaits the
\* upstream.
executeQuery_NoParse(s, snap, via, doc) ==
    [next |-> One(AwaitingOp(s, doc)), out |-> Sent(s, via, snap, doc)]

executeQuery(s, snap, via, doc) ==
    IF ~ParseOK(doc)
    THEN [next |-> EmptyBag,
          out |-> ErrorLine(s.name, "InvalidQuerySyntax", <<>>, via, snap)]
    ELSE [next |-> One(AwaitingOp(s, doc)), out |-> Sent(s, via, snap, doc)]

\* executeGraphQLTool after `await fetchSchema()` returned snap: the handler
\* as it goes on (no handler if it has ended) and the event.
QueryAfter(s, snap, via) ==
    IF snap = NoSchema
    THEN [next |-> EmptyBag, out |-> ErrorLine(s.name, "SchemaUnavailable", <<>>, via, snap)]
    ELSE LET Send(doc) == executeQuery(s, snap, via, doc)
             Found(field) ==
                 IF field = NoField
                 THEN [next |-> EmptyBag,
                       out |-> ErrorLine(s.name, "UnknownField", s.actual, via, snap)]
                 ELSE Send(Assemble("query", s.name, s.name, field, s.args))
         IN  Found(FieldNamed(SchemaOf(snap.sid).query, s.actual))

\* executeGraphQLMutation after `await fetchSchema()` returned snap.
MutationAfter(s, snap, via) ==
    IF snap = NoSchema
    THEN [next |-> EmptyBag, out |-> ErrorLine(s.name, "SchemaUnavailable", <<>>, via, snap)]
    ELSE IF ~SchemaOf(snap.sid).hasMutation
    THEN [next |-> EmptyBag, out |-> ErrorLine(s.name, "NoMutationType", <<>>, via, snap)]
    ELSE LET Send(doc) == executeQuery(s, snap, via, doc)
             Found(field) ==
                 IF field = NoField
                 THEN [next |-> EmptyBag,
                       out |-> ErrorLine(s.name, "UnknownMutation", s.actual, via, snap)]
                 ELSE Send(Assemble("mutation", s.actual, s.actual, field, s.args))
         IN  Found(FieldNamed(SchemaOf(snap.sid).mutation, s.actual))

\* const isMutation = name.startsWith("mutation_")
isMutation(name) == startsWith(name, MutationPrefix)

\* The id of the line a handler was created for in this very step (a handler
\* that has not yet awaited anything), NoId for a handler resumed.
LineOf(s) == IF s.pc = "run" THEN s.id ELSE NoId

\* The rest of the handler s once fetchSchema has returned snap (by way of
\* via), the registry being map at that moment: the handler as it goes on,
\* the event, the registry, the listed tools and the epoch afterwards.
After(s, snap, via, map, ep) ==
    CASE s.method = "tools/list" ->
            LET Listed(r) ==
                    [next |-> EmptyBag,
                     out |-> [ListResult(r.tools, via, snap)
                                 EXCEPT !.fresh = s.fresh, !.id = s.id, !.line = LineOf(s)],
                     map |-> r.map,
                     listed |-> r.tools,
                     epoch |-> Tracked([ep EXCEPT !.lists = @ \cup {r.tools},
                                                  !.answered = Min(@ + 1, CountCap)])]
            IN  Listed(ListTools(snap, env, map))
      [] s.method = "tools/call" ->
            LET Called(r) ==
                    [next |-> r.next,
                     out |-> [r.out EXCEPT !.fresh = s.fresh, !.line = LineOf(s),
                                           !.id = IF r.out.kind = "none" THEN NoId ELSE s.id],
                     map |-> map, listed |-> listed, epoch |-> ep]
            IN  Called(IF isMutation(s.name)
                       THEN MutationAfter(s, snap, via)
                       ELSE QueryAfter(s, snap, via))
      [] OTHER -> [next |-> EmptyBag,
                   out |-> [Returned(<<>>, via, snap) EXCEPT !.fresh = s.fresh],
                   map |-> map, listed |-> listed, epoch |-> ep]

\* A handler goes on with r, the outcome After computed, the other handlers
\* being others.
Continue(r, others) ==
    /\ handlers' = others (+) r.next
    /\ out' = r.out
    /\ toolNameMappings' = r.map
    /\ listed' = r.listed
    /\ epoch' = r.epoch

\* fetchSchema() entered by the new handler s; ep is the epoch so far.
fetchSchema(s, ep) ==
    CASE FetchMode = "wait" ->
            /\ handlers' = handlers (+) One([s EXCEPT !.pc = "polling"])
            /\ epoch' = ep
            /\ out' = [NoOut EXCEPT !.line = s.id]
            /\ UNCHANGED <<schemaFetchInProgress, toolNameMappings, listed>>
      [] FetchMode = "hit" ->
            /\ Continue(After(s, schemaCache, "hit", toolNameMappings, ep), handlers)
            /\ UNCHANGED schemaFetchInProgress
      [] OTHER ->
            /\ schemaFetchInProgress' = TRUE
            /\ handlers' = handlers (+) One([s EXCEPT !.pc = "awaitIntro", !.t0 = now])
            /\ epoch' = Tracked([ep EXCEPT !.calls = Min(@ + 1, CountCap)])
            /\ out' = [NoOut EXCEPT !.line = s.id]
            /\ UNCHANGED <<toolNameMappings, listed>>

\* ---------------------------------------------------------------- actions
\* A further line can be taken up.
CanArrive == BagCardinality(Requests) < MaxInFlight

\* A tools/list line with this id arrives.
ListLine(id) ==
    /\ CanArrive
    /\ fetchSchema(NewRequest(id, "tools/list", <<>>, EmptyMap, <<>>), EpochAtArrival)
    /\ UNCHANGED <<env, schemaCache, schemaCacheExpiry, now>>

\* A tools/list line arrives.
ArriveList == ListLine(NoId)

\* The field name a tools/call of this external name is checked and looked
\* up under: toolNameMappings[name] || name, less the prefix for mutations.
ActualName(name, map) ==
    IF isMutation(name) THEN stripPrefix(Resolve(map, name)) ELSE Resolve(map, name)

\* The whitelist check of executeGraphQLTool / executeGraphQLMutation.
PassesWhitelist(name, map) ==
    IF isMutation(name)
    THEN ~env.wm.on \/ ActualName(name, map) \in env.wm.names
    ELSE ~env.wq.on \/ ActualName(name, map) \in env.wq.names

\* A tools/call (or tool.call) line with this id arrives: name resolution
\* and the whitelist check come before fetchSchema.
CallLine_ResetOnReject(id, name, args) ==
    /\ CanArrive
    /\ LET actual == ActualName(name, toolNameMappings)
       IN  IF ~PassesWhitelist(name, toolNameMappings)
           THEN /\ out' = [ErrorLine(name, "WhitelistRejected", actual, "", NoSchema)
                              EXCEPT !.id = id, !.line = id]
                /\ epoch' = EpochAtArrival
                /\ toolNameMappings' = EmptyMap
                /\ UNCHANGED <<handlers, schemaFetchInProgress, listed>>
           ELSE fetchSchema(NewRequest(id, "tools/call", name, args, actual), EpochAtArrival)
    /\ UNCHANGED <<env, schemaCache, schemaCacheExpiry, now>>

CallLine(id, name, args) ==
    /\ CanArrive
    /\ LET actual == ActualName(name, toolNameMappings)
       IN  IF ~PassesWhitelist(name, toolNameMappings)
           THEN /\ out' = [ErrorLine(name, "WhitelistRejected", actual, "", NoSchema)
                              EXCEPT !.id = id, !.line = id]
                /\ epoch' = EpochAtArrival
                /\ UNCHANGED <<handlers, schemaFetchInProgress, toolNameMappings, listed>>
           ELSE fetchSchema(NewRequest(id, "tools/call", name, args, actual), EpochAtArrival)
    /\ UNCHANGED <<env, schemaCache, schemaCacheExpiry, now>>

\* A tools/call line arrives.
ArriveCall(name, args) == CallLine(NoId, name, args)

\* A caller still in the poll loop when a caller that waited along with it
\* returns schemaCache.
Heard(g) ==
    IF g.pc = "polling" /\ g.waited = "failed" THEN [g EXCEPT !.waited = "same"] ELSE g

\* The 50 ms timer of a waiting caller fires and finds the flag cleared: the
\* caller returns schemaCache.  (A wake-up that finds the flag still set
\* changes nothing.)  With rec, the return is recorded on the callers still
\* waiting.
PollWakeWith(s, rec) ==
    /\ s.pc = "polling"
    /\ ~schemaFetchInProgress
    /\ Continue(After(s, schemaCache, "wait", toolNameMappings, epoch),
                BagOfAll(LAMBDA g : IF rec THEN Heard(g) ELSE g, handlers (-) One(s)))
    /\ UNCHANGED <<env, schemaCache, schemaFetchInProgress, schemaCacheExpiry, now>>

PollWake_Refetch(s) ==
    /\ s.pc = "polling"
    /\ ~schemaFetchInProgress
    /\ IF CacheValid
       THEN /\ Continue(After(s, schemaCache, "wait", toolNameMappings, epoch),
                        handlers (-) One(s))
            /\ UNCHANGED schemaFetchInProgress
       ELSE /\ schemaFetchInProgress' = TRUE
            /\ handlers' = (handlers (-) One(s)) (+) One([s EXCEPT !.pc = "awaitIntro", !.t0 = now])
            /\ out' = NoOut
            /\ UNCHANGED <<toolNameMappings, listed, epoch>>
    /\ UNCHANGED <<env, schemaCache, schemaCacheExpiry, now>>

PollWake(s) == PollWakeWith(s, FALSE)

\* A waiting caller sees the fetch it waits for succeed.
MarkFresh(s) == IF s.pc = "polling" THEN [s EXCEPT !.fresh = TRUE] ELSE s

\* A waiting caller when a fetch completes, having stored this snapshot
\* (NoSchema: it failed and stored nothing).
Saw(stored, g) ==
    IF g.pc # "polling" THEN g
    ELSE IF g.waited = Pending
    THEN [g EXCEPT !.waited = IF stored = NoSchema THEN "failed" ELSE "same"]
    ELSE IF g.waited = "same" /\ stored \notin {NoSchema, schemaCache}
    THEN [g EXCEPT !.waited = "differs"]
    ELSE g

\* The introspection request of handler s returns a schema: it is cached
\* with the expiry counted from the instant the fetch began, and the
\* registry is reset.  With rec, the completion is recorded on the waiting
\* callers.
IntroSucceedWith(s, sid, rec) ==
    /\ s.pc = "awaitIntro"
    /\ LET schema == [sid |-> sid, at |-> s.t0]
       IN  /\ schemaCache' = schema
           /\ schemaCacheExpiry' = s.t0 + CACHE_TTL
           /\ schemaFetchInProgress' = FALSE
           /\ Continue(After([s EXCEPT !.fresh = TRUE], schema, "fetch", EmptyMap,
                             Tracked([epoch EXCEPT !.fetched = TRUE])),
                       BagOfAll(LAMBDA g : IF rec THEN Saw(schema, MarkFresh(g)) ELSE MarkFresh(g),
                                handlers (-) One(s)))
    /\ UNCHANGED <<env, now>>

IntroSucceed(s, sid) == IntroSucceedWith(s, sid, FALSE)

\* The introspection request of handler s fails (transport error, GraphQL
\* error, or buildClientSchema throwing on the response).
IntroFailWith_NoFinally(s, rec) ==
    /\ s.pc = "awaitIntro"
    /\ Continue(After(s, NoSchema, "fetch", toolNameMappings,
                      Tracked([epoch EXCEPT !.fetched = TRUE])),
                BagOfAll(LAMBDA g : IF rec THEN Saw(NoSchema, g) ELSE g, handlers (-) One(s)))
    /\ UNCHANGED <<env, schemaCache, schemaFetchInProgress, schemaCacheExpiry, now>>

IntroFailWith(s, rec) ==
    /\ s.pc = "awaitIntro"
    /\ schemaFetchInProgress' = FALSE
    /\ Continue(After(s, NoSchema, "fetch", toolNameMappings,
                      Tracked([epoch EXCEPT !.fetched = TRUE])),
                BagOfAll(LAMBDA g : IF rec THEN Saw(NoSchema, g) ELSE g, handlers (-) One(s)))
    /\ UNCHANGED <<env, schemaCache, schemaCacheExpiry, now>>

IntroFail(s) == IntroFailWith(s, FALSE)

\* The upstream answers the operation dispatched by handler s.
OpComplete(s, ok) ==
    /\ s.pc = "awaitOp"
    /\ handlers' = handlers (-) One(s)
    /\ out' = IF ok THEN CallResult(s)
              ELSE [ErrorLine(s.name, "UpstreamGraphQLError", <<>>, "", NoSchema)
                       EXCEPT !.id = s.id]
    /\ UNCHANGED <<env, schemaCache, schemaFetchInProgress, schemaCacheExpiry,
                   toolNameMappings, now, listed, epoch>>

\* A waiter whose 50 ms timer will find the flag cleared: it returns long
\* before the clock, which counts half hours, moves on.
PollDue == At("polling") # EmptyBag /\ ~schemaFetchInProgress

\* Time passes.
Tick ==
    /\ now < MaxTime
    /\ ~PollDue
    /\ now' = now + 1
    /\ out' = NoOut
    /\ UNCHANGED <<env, schemaCache, schemaFetchInProgress, schemaCacheExpiry,
                   toolNameMappings, handlers, listed, epoch>>

Next ==
    \/ ArriveList
    \/ \E name \in CallNames : \E args \in CallArgs(name) : ArriveCall(name, args)
    \/ \E s \in BagToSet(handlers) : PollWake(s)
    \/ \E s \in BagToSet(handlers) : \E sid \in SchemaIds : IntroSucceed(s, sid)
    \/ \E s \in BagToSet(handlers) : IntroFail(s)
    \/ \E s \in BagToSet(handlers) : \E ok \in BOOLEAN : OpComplete(s, ok)
    \/ Tick

Spec == Init /\ [][Next]_vars

\* The same server with the history of every waiting caller recorded: which
\* fetches completed while it waited, and which callers returned before it.
WaitNext ==
    \/ ArriveList
    \/ \E name \in CallNames : \E args \in CallArgs(name) : ArriveCall(name, args)
    \/ \E s \in BagToSet(handlers) : PollWakeWith(s, TRUE)
    \/ \E s \in BagToSet(handlers) : \E sid \in SchemaIds : IntroSucceedWith(s, sid, TRUE)
    \/ \E s \in BagToSet(handlers) : IntroFailWith(s, TRUE)
    \/ \E s \in BagToSet(handlers) : \E ok \in BOOLEAN : OpComplete(s, ok)
    \/ Tick

WaitSpec == Init /\ [][WaitNext]_vars

\* ================================================================= claims
\* A step in which a request that calls fetchSchema arrives: its handler
\* stays in flight, or fetchSchema returned to it from the cache at once.
Arrives ==
    \/ BagCardinality(handlers') > BagCardinality(handlers)
    \/ out'.via = "hit"

\* A step in which a waiter leaves fetchSchema.
Wakes == out'.via = "wait"

C2_CacheReuse ==
    [][ /\ ( /\ Arrives \/ Wakes
             /\ schemaCache # NoSchema /\ now < schemaCacheExpiry )
           => /\ Outstanding = 0 /\ Outstanding' = 0
              /\ ~schemaFetchInProgress'
              /\ schemaCache' = schemaCache /\ schemaCacheExpiry' = schemaCacheExpiry
              /\ out'.via \in {"hit", "wait"} /\ out'.snap = schemaCache
              /\ out'.kind = "tools" =>
                    ToolNames(out'.tools) = ToolNames(ListTools(schemaCache, env, EmptyMap).tools)
        /\ ( /\ Arrives
             /\ schemaCache # NoSchema /\ now >= schemaCacheExpiry
             /\ ~schemaFetchInProgress )
           => /\ Outstanding = 0 /\ Outstanding' = 1
              /\ schemaFetchInProgress'
      ]_vars

\* A tools/list was answered from the cache, a tick after the snapshot was
\* fetched.
C2_Witness ==
    out.kind = "tools" /\ out.via = "hit" /\ out.snap = schemaCache /\ now > schemaCache.at

\* C3: a fetchSchema call that sent or waited for an introspection request
\* returns null unless such a request succeeded while the call was in
\* progress: a failed attempt hands no caller a snapshot cached earlier.
C3_FailureReturnsUnavailable ==
    (out.via \in {"fetch", "wait"} /\ ~out.fresh) => out.snap = NoSchema

\* The names of the listed tools, with the field each was generated from.
ListedTools == {listed[i] : i \in 1..Len(listed)}

\* The root type fields a document of this kind is run against.
RootFields(snap, kind) ==
    IF kind = "query" THEN SchemaOf(snap.sid).query ELSE SchemaOf(snap.sid).mutation

WhitelistFor(kind) == IF kind = "query" THEN env.wq ELSE env.wm

\* C4: every tool of the last tools/list result passes the whitelist check
\* of tools/call, and the root field of every document sent upstream is a
\* field its whitelist allows.
C4_WhitelistSymmetry ==
    /\ \A t \in ListedTools : PassesWhitelist(t.name, toolNameMappings)
    /\ \A s \in BagToSet(At("awaitOp")) :
          WhitelistFor(s.doc.kind).on => s.doc.root \in WhitelistFor(s.doc.kind).names

\* C5: unless ENABLE_MUTATIONS is true, no tools/list result holds a tool
\* generated from a mutation field and no mutation document is sent.
C5_MutationsOffByDefault ==
    ~env.enableMutations =>
        /\ \A i \in 1..Len(out.tools) : out.tools[i].description.kind # "mutation"
        /\ \A s \in BagToSet(At("awaitOp")) : s.doc.kind # "mutation"

\* C6: no document is sent upstream for a call that omits an argument the
\* field declares non-null.
C6_RequiredArgumentLocal ==
    out.doc # NoDoc =>
        LET field == FieldNamed(RootFields(out.snap, out.doc.kind), out.actual)
            required == RequiredOf(field.args)
        IN  \A i \in 1..Len(required) : required[i] \in DOMAIN out.args

\* The listed query tools whose name is a truncation of their field's name.
TruncatedQueryTools ==
    {t \in ListedTools : t.description.kind = "query" /\ t.name # t.description.field}

\* C7: a tools/call that arrives with the truncated name of a tool of the
\* last tools/list result is checked and looked up under the canonical field
\* that tool was generated from (the handler's resolved name, or the name
\* quoted in the error line if the call ends at once).
C7_TruncatedNameResolves ==
    [][ \A t \in TruncatedQueryTools :
          /\ BagCardinality(handlers') > BagCardinality(handlers)
             => \A s \in BagToSet(handlers' (-) handlers) :
                   s.name = t.name => s.actual = t.description.field
          /\ ( BagCardinality(handlers') = BagCardinality(handlers) /\ out'.kind = "error"
                /\ out'.tool = t.name /\ out'.subject # <<>> )
             => out'.subject = t.description.field
      ]_vars

\* The query fields of a snapshot that the query whitelist excludes.
ExcludedQueryFields(snap) ==
    { f \in {SchemaOf(snap.sid).query[i].name : i \in 1..Len(SchemaOf(snap.sid).query)} :
        f \notin env.wq.names }

\* C8: with a query whitelist, the query tools of a tools/list result are
\* whitelisted fields, and a tools/call naming a query field of the schema
\* that the whitelist excludes gets the whitelist rejection: no document is
\* sent for it and it is answered with no other error.
C8_WhitelistRejection ==
    env.wq.on =>
        /\ \A i \in 1..Len(out.tools) :
              out.tools[i].description.kind = "query"
                 => out.tools[i].description.field \in env.wq.names
        /\ out.doc # NoDoc => out.tool \notin ExcludedQueryFields(out.snap)
        /\ (out.kind = "error" /\ out.snap # NoSchema)
              => out.tool \notin ExcludedQueryFields(out.snap)

\* C9: the tool names of a tools/list result are pairwise distinct, and no
\* two canonical fields share an external name in the registry.
C9_NamesBijective ==
    /\ \A i, j \in 1..Len(out.tools) : i # j => out.tools[i].name # out.tools[j].name
    /\ \A a, b \in DOMAIN toolNameMappings :
          toolNameMappings[a] = toolNameMappings[b] => a = b

\* C10: every tool name of a tools/list result has at most 64 characters: a
\* query tool carries its field name, cut to the first 64 characters if
\* longer; a mutation tool carries mutation_<field>, or mutation_ and the
\* first 55 characters of the field name (64 in all) if that is longer.
C10_NameLength ==
    \A i \in 1..Len(out.tools) :
        LET t == out.tools[i]
            f == t.description.field
        IN  /\ Len(t.name) <= 64
            /\ t.description.kind = "query" =>
                  t.name = (IF Len(f) > 64 THEN SubSeq(f, 1, 64) ELSE f)
            /\ t.description.kind = "mutation" =>
                  IF Len(f) + 9 > 64
                  THEN t.name = MutationPrefix \o SubSeq(f, 1, 55) /\ Len(t.name) = 64
                  ELSE t.name = MutationPrefix \o f

\* A tools/list result holds a query tool cut to 64 characters and the tool
\* of a 60-character mutation, 64 characters long.
C10_Witness ==
    /\ \E i \in 1..Len(out.tools) :
          /\ out.tools[i].description.kind = "query"
          /\ Len(out.tools[i].description.field) = 70
          /\ Len(out.tools[i].name) = 64
    /\ \E i \in 1..Len(out.tools) :
          /\ out.tools[i].description.kind = "mutation"
          /\ Len(out.tools[i].description.field) = 60
          /\ Len(out.tools[i].name) = 64

\* The depth of the deepest field of a selection, its top-level fields being
\* at depth 1 (0 for the empty selection).
RECURSIVE SelectionDepth(_)
SelectionDepth(fields) ==
    IF fields = <<>> THEN 0
    ELSE LET DepthOf(f) == IF f.obj THEN 1 + SelectionDepth(f.fields) ELSE 1
             Deepest[i \in 0..Len(fields)] ==
                 IF i = 0 THEN 0
                 ELSE IF DepthOf(fields[i]) > Deepest[i - 1] THEN DepthOf(fields[i])
                 ELSE Deepest[i - 1]
         IN  Deepest[Len(fields)]

\* C11: the selection of every document sent upstream holds no field deeper
\* than depth 2, the fields of the operation's return type being at depth 1.
C11_SelectionDepth ==
    out.doc # NoDoc => SelectionDepth(out.doc.selection) <= 2

\* =============================================== the whole line protocol
\* The ids request lines carry (NoId: a line without one).
Ids == {1, 2}

\* The methods main() handles itself; "ping" stands for every other one.
KnownMethods ==
    { "initialize", "notifications/initialized", "tools/list", "tools/call",
      "tool.call", "resources/list", "prompts/list" }

Methods == KnownMethods \cup {"ping"}

\* A JSON-RPC result line that needs neither the schema nor the upstream.
StaticResult(id, kind) == [NoOut EXCEPT !.kind = kind, !.id = id, !.line = id]

\* The error line of the method-not-found branch.
MethodNotFound_GenericCode(id) ==
    [NoOut EXCEPT !.kind = "error", !.error = "MethodNotFound", !.code = -32000,
                  !.id = id, !.line = id]

MethodNotFound(id) ==
    [NoOut EXCEPT !.kind = "error", !.error = "MethodNotFound", !.code = -32601,
                  !.id = id, !.line = id]

\* The error line of the outer catch of the line handler.
ProcessingError(id) ==
    [NoOut EXCEPT !.kind = "error", !.error = "ProcessingError", !.code = -32000, !.id = id]

\* The line handler for a method that is answered in the same macrotask.
Immediate(id, method) ==
    /\ out' = CASE method = "initialize" -> StaticResult(id, "initialize")
                [] method = "notifications/initialized" -> NoOut
                [] method = "resources/list" -> StaticResult(id, "resources")
                [] method = "prompts/list" -> StaticResult(id, "prompts")
                [] OTHER -> MethodNotFound(id)
    /\ UNCHANGED <<env, schemaCache, schemaFetchInProgress, schemaCacheExpiry,
                   toolNameMappings, now, handlers, listed, epoch>>

\* rl.on("line") for a line that parses as a request with params.
Line(id, method, name) ==
    CASE method = "tools/list" -> ListLine(id)
      [] method \in {"tools/call", "tool.call"} -> CallLine(id, name, EmptyMap)
      [] OTHER -> Immediate(id, method)

\* A line that is not JSON: the outer catch answers with id null.
BadLine ==
    /\ out' = ProcessingError(NoId)
    /\ UNCHANGED <<env, schemaCache, schemaFetchInProgress, schemaCacheExpiry,
                   toolNameMappings, now, handlers, listed, epoch>>

\* A tools/call line without params: destructuring throws, the outer catch
\* answers with the id of the line.
CallWithoutParams(id) ==
    /\ out' = [ProcessingError(id) EXCEPT !.line = id]
    /\ UNCHANGED <<env, schemaCache, schemaFetchInProgress, schemaCacheExpiry,
                   toolNameMappings, now, handlers, listed, epoch>>

\* The tools called over the whole protocol.
ProtocolNames == {fA, fB}

\* The methods that take a tool name.
CallMethods == {"tools/call", "tool.call"}

\* The line protocol within one cache period: the clock stands still.
ProtocolNext ==
    \/ \E id \in Ids : \E method \in Methods \ CallMethods : Line(id, method, <<>>)
    \/ \E id \in Ids : \E method \in CallMethods : \E name \in ProtocolNames :
          Line(id, method, name)
    \/ BadLine
    \/ \E id \in Ids : CallWithoutParams(id)
    \/ \E s \in BagToSet(handlers) : PollWake(s)
    \/ \E s \in BagToSet(handlers) : \E sid \in SchemaIds : IntroSucceed(s, sid)
    \/ \E s \in BagToSet(handlers) : IntroFail(s)
    \/ \E s \in BagToSet(handlers) : \E ok \in BOOLEAN : OpComplete(s, ok)

ProtocolSpec == Init /\ [][ProtocolNext]_vars

\* The handlers among h that serve the request with this id.
Serving(h, id) == [s \in {g \in BagToSet(h) : g.id = id} |-> h[s]]

\* How many handlers the step adds (negative: ends).
HandlersAdded == BagCardinality(handlers') - BagCardinality(handlers)

\* How many handlers serving this id the step adds.
AddedFor(id) ==
    BagCardinality(Serving(handlers', id)) - BagCardinality(Serving(handlers, id))

\* C12: a request line is answered in the step that reads it, with its id,
\* or gets one handler and nothing is written; a handler that ends, in
\* whatever order, writes one line, with the id of its request, and writes
\* nothing before it ends; no other step writes a line, but for the answer
\* with id null to a line that is not JSON; notifications/initialized writes
\* nothing and leaves no handler.
C12_OneResponsePerRequest ==
    [][ /\ out'.line \in Ids =>
              \/ out'.kind # "none" /\ out'.id = out'.line /\ handlers' = handlers
              \/ /\ out'.kind = "none"
                 /\ \E s \in BagToSet(handlers') :
                       s.id = out'.line /\ handlers' = handlers (+) One(s)
        /\ out'.line = NoId =>
              \/ HandlersAdded = 0 /\ out'.kind = "none"
              \/ HandlersAdded = 0 /\ out' = ProcessingError(NoId)
              \/ HandlersAdded = -1 /\ AddedFor(NoId) = -1 /\ out'.kind = "none"
              \/ /\ HandlersAdded = -1
                 /\ \E id \in Ids : AddedFor(id) = -1 /\ out'.kind # "none" /\ out'.id = id
        /\ \A id \in Ids :
              Line(id, "notifications/initialized", <<>>)
                 => out'.kind = "none" /\ handlers' = handlers
      ]_vars

\* A response is written for one request while a request with another id,
\* taken up earlier or later, is still in flight.
C12_Witness ==
    /\ out.kind = "content" /\ out.id = 2
    /\ \E s \in BagToSet(Requests) : s.id = 1 /\ s.pc = "awaitOp"

\* ================================================= a call that never ends
\* The scheduling the event loop guarantees: a pending 50 ms timer fires, so
\* a waiting caller that can leave the poll loop does.  Nothing makes the
\* upstream answer: an introspection request or an operation may hang.
HangSpec ==
    Init /\ [][Next]_vars /\ WF_vars(\E s \in BagToSet(handlers) : PollWake(s))

\* C13: a request that waits in fetchSchema has issued no upstream call
\* itself, so it is not stalled by a call of another request that hangs: it
\* leaves the poll loop.
C13_HangStallsOnlyIssuer == (At("polling") # EmptyBag) ~> (At("polling") = EmptyBag)

\* C14: a tools/list or tools/call whose fetchSchema returned no schema is
\* answered with a JSON-RPC error object, never with a result.
C14_NoSchemaIsError ==
    (out.via # "" /\ out.snap = NoSchema /\ out.kind # "none") => out.kind = "error"

\* C15: a caller that waited in fetchSchema returns only after a fetch has
\* completed while it waited; if that fetch succeeded, it returns the
\* snapshot that fetch stored; and it returns the snapshot that a caller
\* which waited along with it has returned.
C15_WaitersShareSnapshot ==
    [][ out'.via = "wait" =>
           \A s \in BagToSet(At("polling")) :
              PollWakeWith(s, TRUE) => s.waited \notin {Pending, "differs"} ]_vars

\* C16: an introspection request is sent only in the step that takes up a
\* request line, by the handler of that line, one at most; an attempt that
\* has failed leaves none outstanding; and a request that needs the schema
\* and arrives when no fetch is in flight and the cache is not valid, as
\* after a failed attempt, sends exactly one.
C16_LazyRetryOnly ==
    [][ /\ Outstanding' > Outstanding =>
              \E s \in BagToSet(handlers') :
                 /\ s.pc = "awaitIntro" /\ s.method # "startup"
                 /\ handlers' = handlers (+) One(s)
        /\ (out'.via = "fetch" /\ out'.snap = NoSchema) =>
              Outstanding' = 0 /\ ~schemaFetchInProgress'
        /\ (~schemaFetchInProgress /\ ~CacheValid /\ HandlersAdded = 1) =>
              Outstanding' = 1 /\ schemaFetchInProgress'
      ]_vars

\* The startup attempt has failed, a caller that waited for it is still in
\* the poll loop, and the request that came next has one attempt in flight.
C16_Witness ==
    /\ schemaCache = NoSchema
    /\ \E s \in BagToSet(Requests) : s.pc = "awaitIntro"
    /\ \E s \in BagToSet(Requests) : s.pc = "polling"
    /\ Outstanding = 1

\* ============================================ coercion and assembly alone
\* Arguments of every base type, nullable but for ArgId.
ArgX == Arg("x", TypeRef("Float", FALSE, FALSE))       \* x: Float
ArgB == Arg("b", TypeRef("Boolean", FALSE, FALSE))     \* b: Boolean
ArgS == Arg("s", TypeRef("String", FALSE, FALSE))      \* s: String
ArgD == Arg("d", TypeRef("ID", FALSE, FALSE))          \* d: ID
ArgC == Arg("c", TypeRef("Color", FALSE, FALSE))       \* c: Color (enum)
ArgCtor == Arg("constructor", TypeRef("String", FALSE, FALSE))   \* constructor: String

\* Root fields, of the query type and of the mutation type alike: fScalar
\* takes scalar arguments only and returns an object, fOther takes an enum
\* and an input object and returns a scalar, fProto takes an argument named
\* as a member of Object.prototype is.
fScalar == <<"s">>
fOther  == <<"e">>
fProto  == <<"p">>

CoerceFields ==
    << Field(fScalar, <<ArgId, ArgN, ArgX, ArgB, ArgS, ArgD>>, TypeRef("T1", FALSE, FALSE)),
       Field(fOther, <<ArgC, ArgIn>>, TypeRef("String", FALSE, FALSE)),
       Field(fProto, <<ArgCtor, ArgN>>, TypeRef("String", FALSE, FALSE)) >>

\* The JSON values a caller supplies for an argument.
InputVals ==
    { VNull, VNum(12), VStr("12"), VStr(""), VStr("{}"), VStr("{x"), VBool(TRUE), VObj }

\* How many arguments a call supplies at most.
MaxArgs == 2

\* The argument maps a caller supplies for a field: values for up to
\* MaxArgs of its declared arguments or of a name it does not declare.
ArgMaps(field) ==
    LET names == {field.args[i].name : i \in 1..Len(field.args)} \cup {"zz"}
    IN  UNION { [D -> InputVals] : D \in {S \in SUBSET names : Cardinality(S) <= MaxArgs} }

\* A tools/call of a query tool or a mutation tool that has passed the
\* lookup of its field and is about to process its arguments.
CoerceInit ==
    /\ env = Env(NoWhitelist, NoWhitelist, FALSE)
    /\ schemaCache = NoSchema
    /\ schemaFetchInProgress = FALSE
    /\ schemaCacheExpiry = NoExpiry
    /\ toolNameMappings = EmptyMap
    /\ now = 0
    /\ \E i \in 1..Len(CoerceFields) : \E args \in ArgMaps(CoerceFields[i]) :
          \E name \in {CoerceFields[i].name, MutationToolName(CoerceFields[i].name)} :
             handlers = One(NewHandler("tools/call", name, args, CoerceFields[i].name))
    /\ out = NoOut
    /\ listed = <<>>
    /\ epoch = NoEpoch

\* The try block of executeGraphQLTool / executeGraphQLMutation up to the
\* call of executeQuery: arguments processed, document assembled.
Coerce(s) ==
    /\ s.pc = "run"
    /\ handlers' = handlers (-) One(s)
    /\ out' = Sent(s, "", NoSchema,
                   IF isMutation(s.name)
                   THEN Assemble("mutation", s.actual, s.actual,
                                 FieldNamed(CoerceFields, s.actual), s.args)
                   ELSE Assemble("query", s.name, s.name,
                                 FieldNamed(CoerceFields, s.actual), s.args))
    /\ UNCHANGED <<env, schemaCache, schemaFetchInProgress, schemaCacheExpiry,
                   toolNameMappings, now, listed, epoch>>

CoerceNext == \E s \in BagToSet(handlers) : Coerce(s)

CoerceSpec == CoerceInit /\ [][CoerceNext]_vars

\* The declared arguments of the field a document was assembled for.
DeclaredArgs == FieldNamed(CoerceFields, out.actual).args

\* C17: a null supplied for a declared argument whose type is not non-null
\* is not in the variables map of the document.
C17_NullDropped ==
    out.doc # NoDoc =>
       \A i \in 1..Len(DeclaredArgs) :
          LET arg == DeclaredArgs[i]
          IN  ( /\ arg.name \in DOMAIN out.args
                /\ out.args[arg.name] = VNull
                /\ ~isNonNullType(arg.type) )
              => arg.name \notin DOMAIN out.doc.variables

\* C18: the document assembled for a field that takes scalar arguments
\* only parses, whatever arguments are supplied.
C18_ScalarDocumentParses ==
    ( /\ out.doc # NoDoc
      /\ \A i \in 1..Len(DeclaredArgs) : isScalarType(getNamedType(DeclaredArgs[i].type)) )
    => ParseOK(out.doc)

\* A document without variables, though arguments were supplied, and with a
\* selection: no parentheses, one brace pair.
C18_Witness ==
    /\ out.doc # NoDoc
    /\ out.actual = fScalar
    /\ out.args # EmptyMap
    /\ out.doc.variables = EmptyMap
    /\ ~out.doc.varParens /\ ~out.doc.argParens /\ out.doc.braces

\* ====================================================== executeQuery alone
\* The documents executeQuery may be handed, as their parts: with and
\* without each optional bracket pair, around something or around nothing.
Docs ==
    { [ kind      |-> kind,
        opName    |-> fA,
        root      |-> fA,
        varDefs   |-> [i \in 1..Len(used) |-> [name |-> used[i].name, type |-> used[i].type]],
        fieldArgs |-> [i \in 1..Len(used) |-> used[i].name],
        varParens |-> varParens,
        argParens |-> argParens,
        braces    |-> braces,
        selection |-> selection,
        variables |-> EmptyMap ] :
      kind \in {"query", "mutation"}, used \in {<<>>, <<ArgN>>},
      varParens \in BOOLEAN, argParens \in BOOLEAN, braces \in BOOLEAN,
      selection \in { <<>>, <<Leaf(<<"i", "d">>)>>,
                      <<Nested(<<"k", "i", "d">>, <<>>)>>,
                      <<Nested(<<"k", "i", "d">>, <<Leaf(<<"c">>)>>)>> } }

\* A handler about to call executeQuery with a document.
ExecInit ==
    /\ env = Env(NoWhitelist, NoWhitelist, FALSE)
    /\ schemaCache = NoSchema
    /\ schemaFetchInProgress = FALSE
    /\ schemaCacheExpiry = NoExpiry
    /\ toolNameMappings = EmptyMap
    /\ now = 0
    /\ \E doc \in Docs :
          handlers = One([NewHandler("tools/call", fA, EmptyMap, fA) EXCEPT !.doc = doc])
    /\ out = NoOut
    /\ listed = <<>>
    /\ epoch = NoEpoch

\* The handler s calls executeQuery with its document.
Execute(s) ==
    /\ s.pc = "run"
    /\ handlers' = (handlers (-) One(s)) (+) executeQuery(s, NoSchema, "", s.doc).next
    /\ out' = executeQuery(s, NoSchema, "", s.doc).out
    /\ UNCHANGED <<env, schemaCache, schemaFetchInProgress, schemaCacheExpiry,
                   toolNameMappings, now, listed, epoch>>

ExecNext ==
    \/ \E s \in BagToSet(handlers) : Execute(s)
    \/ \E s \in BagToSet(handlers) : \E ok \in BOOLEAN : OpComplete(s, ok)

ExecSpec == ExecInit /\ [][ExecNext]_vars

\* C19: a document that is with the upstream, or was sent in this step, has
\* parsed; and the call of executeQuery with a document that does not parse
\* fails with InvalidQuerySyntax and sends nothing.
C19_ParseBeforeSend ==
    [][ /\ out'.doc # NoDoc => ParseOK(out'.doc)
        /\ \A s \in BagToSet(handlers') : s.pc = "awaitOp" => ParseOK(s.doc)
        /\ \A s \in BagToSet(handlers) :
              (Execute(s) /\ ~ParseOK(s.doc)) =>
                 /\ out'.kind = "error" /\ out'.error = "InvalidQuerySyntax"
                 /\ out'.doc = NoDoc
                 /\ handlers' = handlers (-) One(s)
      ]_vars

\* executeQuery has refused a document.
C19_Witness ==
    out.kind = "error" /\ out.error = "InvalidQuerySyntax" /\ handlers = EmptyBag

\* C20: a line whose method is none of the known ones is answered with an
\* error of code -32601; no other line is; and every other error written
\* has code -32000.
C20_MethodNotFoundCode ==
    [][ /\ \A id \in Ids : \A method \in Methods \ KnownMethods :
              Line(id, method, <<>>) =>
                 out'.kind = "error" /\ out'.code = -32601 /\ out'.id = id
        /\ out'.code = -32601 =>
              \E id \in Ids : \E method \in Methods \ KnownMethods : Line(id, method, <<>>)
        /\ (out'.kind = "error" /\ out'.error # "MethodNotFound") => out'.code = -32000
      ]_vars

\* An unknown method has been answered while a request is in flight.
C20_Witness ==
    /\ out.kind = "error" /\ out.error = "MethodNotFound" /\ out.code = -32601
    /\ Requests # EmptyBag

\* ======================================= what a dispatched document names
\* The schema field a dispatched document was assembled from: the one the
\* handler looked up under its resolved name.
AssembledFrom == FieldNamed(RootFields(out.snap, out.doc.kind), out.actual)

\* C21: the root field of every document sent upstream, query or mutation,
\* is the canonical field name the tool name resolved to, and its variable
\* types and its selection are those of that field.
C21_RootIsCanonical ==
    out.doc # NoDoc =>
        /\ out.doc.root = out.actual
        /\ \A i \in 1..Len(out.doc.varDefs) :
              out.doc.varDefs[i].type = ArgNamed(AssembledFrom.args, out.doc.varDefs[i].name).type
        /\ out.doc.selection = PlanSelection(AssembledFrom)

\* C22: with a query whitelist configured, the root field of every query
\* document sent upstream is a whitelisted query field; with a mutation
\* whitelist configured, the root field of every mutation document sent
\* upstream is a whitelisted mutation field.
C22_DispatchedRootWhitelisted ==
    out.doc # NoDoc =>
        /\ (out.doc.kind = "query" /\ env.wq.on) => out.doc.root \in env.wq.names
        /\ (out.doc.kind = "mutation" /\ env.wm.on) => out.doc.root \in env.wm.names

\* C23: a document sent upstream for a call of a tool of the last tools/list
\* result is of the operation kind that tool was generated from.
C23_ExecutedAsGenerated ==
    out.doc # NoDoc =>
        \A t \in ListedTools : t.name = out.tool => out.doc.kind = t.description.kind

\* C24: the fetch-in-progress flag is set exactly while one introspection
\* request is outstanding: a step that sends one leaves the flag set, and a
\* step in which one completes, with a schema or with a failure, leaves the
\* flag cleared and none outstanding.
C24_FlagIffOutstanding ==
    /\ schemaFetchInProgress <=> Outstanding = 1
    /\ ~schemaFetchInProgress <=> Outstanding = 0
    /\ out.via = "fetch" => ~schemaFetchInProgress

\* An introspection request has failed and the flag is cleared while a
\* caller that waited for it is still in the poll loop.
C24_Witness ==
    /\ out.via = "fetch" /\ out.snap = NoSchema
    /\ ~schemaFetchInProgress
    /\ At("polling") # EmptyBag

\* ====================================== a caller followed through its wait
\* The id of the one request that is followed; all others carry none.
WatchedId == 1

\* The handlers of the followed request that are inside fetchSchema.
WatchedInFetch ==
    {s \in BagToSet(handlers) : s.id = WatchedId /\ s.pc \in {"polling", "awaitIntro"}}

\* The followed tools/list line arrives, no such request being in flight.
WatchedLine ==
    /\ Serving(handlers, WatchedId) = EmptyBag
    /\ ListLine(WatchedId)

LiveNext ==
    \/ WatchedLine
    \/ ArriveList
    \/ \E name \in CallNames : \E args \in CallArgs(name) : ArriveCall(name, args)
    \/ \E s \in BagToSet(handlers) : PollWake(s)
    \/ \E s \in BagToSet(handlers) : \E sid \in SchemaIds : IntroSucceed(s, sid)
    \/ \E s \in BagToSet(handlers) : IntroFail(s)
    \/ \E s \in BagToSet(handlers) : \E ok \in BOOLEAN : OpComplete(s, ok)
    \/ Tick

\* The scheduling the claim supposes and the event loop gives: every
\* introspection request completes, with a schema or with a failure, and
\* the pending 50 ms timer of the followed caller fires, so that caller
\* leaves the poll loop if it can from some instant on.  Whether the flag
\* is cleared at the instant the timer fires is up to the other requests.
LiveSpec ==
    /\ Init /\ [][LiveNext]_vars
    /\ WF_vars(\E s \in BagToSet(handlers) :
                  IntroFail(s) \/ \E sid \in SchemaIds : IntroSucceed(s, sid))
    /\ WF_vars(\E s \in BagToSet(handlers) : s.id = WatchedId /\ PollWake(s))

\* C25: every introspection request completing, a call of fetchSchema
\* returns: the followed request does not stay inside fetchSchema for ever.
C25_FetchSchemaReturns == (WatchedInFetch # {}) ~> (WatchedInFetch = {})

\* C26: the step in which a tools/call is rejected by the whitelist sends
\* nothing upstream, neither an introspection request nor an operation, and
\* leaves the cached snapshot, its expiry, the fetch-in-progress flag and
\* the registry as they were.
C26_RejectionTouchesNothing ==
    [][ (out'.kind = "error" /\ out'.error = "WhitelistRejected") =>
            /\ out'.doc = NoDoc
            /\ handlers' = handlers
            /\ Outstanding' = Outstanding
            /\ UNCHANGED <<schemaCache, schemaCacheExpiry, schemaFetchInProgress,
                           toolNameMappings>>
      ]_vars

\* A call has been rejected while the registry holds a truncated name and
\* another request awaits an introspection request.
C26_Witness ==
    /\ out.kind = "error" /\ out.error = "WhitelistRejected"
    /\ toolNameMappings # EmptyMap
    /\ schemaFetchInProgress /\ Outstanding = 1

\* ================================================ selection planning alone
\* The object types of the type table.
ObjectTypes == {n \in DOMAIN TypeDefs : isObjectType(n)}

\* The depths analyzeFields is entered at, and one past them.
Depths == 0..3

\* A call of analyzeFields on an object type that has not run yet: its
\* arguments, and what it will leave behind (the selection returned, the
\* visited set afterwards, the expansions made).  The call made for a root
\* field has visited = {} and depth = 0; the calls it makes have the rest.
PlanningRun(typeName, visitedTypes, depth) ==
    [pc |-> "plan", type |-> typeName, visited |-> visitedTypes, depth |-> depth,
     result |-> <<>>, after |-> {}, expanded |-> <<>>]

PlanInit ==
    /\ env = Env(NoWhitelist, NoWhitelist, FALSE)
    /\ schemaCache = NoSchema
    /\ schemaFetchInProgress = FALSE
    /\ schemaCacheExpiry = NoExpiry
    /\ toolNameMappings = EmptyMap
    /\ now = 0
    /\ \E typeName \in ObjectTypes : \E visitedTypes \in SUBSET ObjectTypes :
          \E depth \in Depths :
             handlers = One(PlanningRun(typeName, visitedTypes, depth))
    /\ out = NoOut
    /\ listed = <<>>
    /\ epoch = NoEpoch

\* The run s once analyzeFields has returned r.
Planned(s, r) ==
    [s EXCEPT !.pc = "planned", !.result = r.result, !.after = r.visited,
              !.expanded = r.expanded]

\* analyzeFields runs to its return; it awaits nothing.
Plan(s) ==
    /\ s.pc = "plan"
    /\ handlers' = One(Planned(s, analyzeFields(s.type, s.visited, s.depth)))
    /\ UNCHANGED <<env, schemaCache, schemaFetchInProgress, schemaCacheExpiry,
                   toolNameMappings, now, out, listed, epoch>>

PlanNext == \E s \in BagToSet(handlers) : Plan(s)

PlanSpec == PlanInit /\ [][PlanNext]_vars

\* The planning runs that have returned.
PlannedRuns == {s \in BagToSet(handlers) : s.pc = "planned"}

\* C27: a planning run returns having expanded each object type at most
\* once and no type that had been expanded before it began, whatever the
\* cycles among the types, so it makes no more expansions than there are
\* object types; the types it leaves marked are those and the ones before.
C27_ExpandedOnce ==
    \A s \in PlannedRuns :
        /\ \A i, j \in 1..Len(s.expanded) : i # j => s.expanded[i] # s.expanded[j]
        /\ \A i \in 1..Len(s.expanded) : s.expanded[i] \notin s.visited
        /\ s.after = s.visited \cup {s.expanded[i] : i \in 1..Len(s.expanded)}
        /\ Len(s.expanded) <= Cardinality(ObjectTypes)

\* The run for a root field of type T5 has returned: T5 refers to itself,
\* T7 refers back to T5, and two fields of T5 have type T7, of which only
\* the first was expanded into a nested selection.
C27_Witness ==
    \E s \in PlannedRuns :
        /\ s.type = "T5" /\ s.visited = {} /\ s.depth = 0
        /\ s.expanded = <<"T5", "T7", "T6", "T8">>
        /\ Len(SelectSeq(s.result, LAMBDA f : f.obj)) = 1

\* The position of the field of this name among the fields of a type (0: the
\* type has no such field).
FieldIndex(typeName, name) ==
    LET fields == TypeDefs[typeName].fields
    IN  IF \E i \in 1..Len(fields) : fields[i].name = name
        THEN CHOOSE i \in 1..Len(fields) : fields[i].name = name
        ELSE 0

\* The positions of the scalar and enum fields of a type that take no
\* arguments.
PlainFields(typeName) ==
    LET fields == TypeDefs[typeName].fields
    IN  { i \in 1..Len(fields) :
            /\ Len(fields[i].args) = 0
            /\ \/ isScalarType(getNamedType(fields[i].type))
               \/ isEnumType(getNamedType(fields[i].type)) }

\* What the claim says of the selection sel planned for the object type
\* typeName; sliced: sel is a nested selection, cut to its first entries.
RECURSIVE WellPlanned(_, _, _)
WellPlanned(sel, typeName, sliced) ==
    LET fields == TypeDefs[typeName].fields
        At_(k) == FieldIndex(typeName, sel[k].name)
    IN  /\ \A k \in 1..Len(sel) : At_(k) > 0 /\ Len(fields[At_(k)].args) = 0
        /\ \A k, l \in 1..Len(sel) : k < l => At_(k) < At_(l)
        /\ \A k \in 1..Len(sel) :
              IF sel[k].obj
              THEN /\ isObjectType(getNamedType(fields[At_(k)].type))
                   /\ Len(sel[k].fields) \in 1..3
                   /\ WellPlanned(sel[k].fields, getNamedType(fields[At_(k)].type), TRUE)
              ELSE At_(k) \in PlainFields(typeName)
        /\ \A i \in PlainFields(typeName) :
              \/ \E k \in 1..Len(sel) : At_(k) = i
              \/ sliced /\ Len(sel) = 3 /\ \A k \in 1..Len(sel) : At_(k) < i

\* C29: in the selection a planning run returns, every selected field, at
\* every level, takes no arguments; the fields are in schema order; the
\* top level holds every argument-free scalar or enum field of the type;
\* and every nested selection has one to three entries, which are the first
\* of the nested type's plan: no argument-free scalar or enum field that
\* comes before a selected one is left out, and none at all when fewer than
\* three are selected.
C29_SelectionShape ==
    \A s \in PlannedRuns :
        s.expanded # <<>> => WellPlanned(s.result, s.type, FALSE)

\* The run for a root field of type T5 has returned: the nested selection of
\* its field of type T7, which has five argument-free scalar or enum fields,
\* holds the first three; the field that takes an argument and the object
\* fields whose plan is empty are left out.
C29_Witness ==
    \E s \in PlannedRuns :
        /\ s.type = "T5" /\ s.visited = {} /\ s.depth = 0
        /\ s.result = << Nested(<<"s", "1">>, <<Leaf(<<"a">>), Leaf(<<"b">>), Leaf(<<"c">>)>>),
                         Leaf(<<"x">>) >>

\* C28: in every assembled document the variables declared, the arguments
\* passed to the root field and the keys of the variables map sent with it
\* are the same names; when there are none, the document has neither a
\* variable-definition list nor a field-argument list.
C28_VariablesMatch ==
    out.doc # NoDoc =>
        LET declared == {out.doc.varDefs[i].name : i \in 1..Len(out.doc.varDefs)}
            passed   == {out.doc.fieldArgs[i] : i \in 1..Len(out.doc.fieldArgs)}
            keys     == DOMAIN out.doc.variables
        IN  /\ declared = passed
            /\ passed = keys
            /\ keys = {} => ~out.doc.varParens /\ ~out.doc.argParens

\* C30: the variables map of an assembled document holds only names the
\* caller supplied and the field declares; a supplied name the field does
\* not declare raises no error.
C30_OnlySuppliedAndDeclared ==
    out.doc # NoDoc =>
        /\ DOMAIN out.doc.variables \subseteq
              (DOMAIN out.args) \cap {DeclaredArgs[i].name : i \in 1..Len(DeclaredArgs)}
        /\ out.kind # "error"

\* A call supplied a declared argument and one the field does not declare:
\* the document was assembled, with the declared one alone as variable.
C30_Witness ==
    /\ out.doc # NoDoc
    /\ out.actual = fScalar
    /\ DOMAIN out.args = {"zz", "n"}
    /\ DOMAIN out.doc.variables = {"n"}

====
